---- MODULE Spec2Model ----
(***************************************************************************)
(* A model of src/main.rs: the Product entity, the Printable,              *)
(* Serializable, InventoryManager and StringExt traits, filter_items and   *)
(* main.                                                                   *)
(*                                                                         *)
(* Rust str/String values are sequences of UTF-8 bytes.  i32 values are    *)
(* integers in MinI32..MaxI32.  f64 values are records (kind, neg, cents)  *)
(* that keep what the code's comparisons and {:.2} formatting can tell     *)
(* apart: NaN, the infinities, the sign of zero and finite values in       *)
(* hundredths.  Owned values live in a heap indexed by object id, so that  *)
(* a clone is a new object and a mutation through one id is visible        *)
(* through exactly that id.                                                *)
(***************************************************************************)
EXTENDS Integers, Sequences, FiniteSets, TLC

\* ------------------------------------------------------------------------
\* i32
\* ------------------------------------------------------------------------
MaxI32 == 2147483647
MinI32 == -MaxI32 - 1
I32 == MinI32..MaxI32

\* x + y leaves the i32 range (computed without leaving it).
AddOverflows(x, y) ==
  \/ y > 0 /\ x > MaxI32 - y
  \/ y < 0 /\ x < MinI32 - y

\* Two's-complement x + y, the result of += when overflow checks are off.
WrappingAdd(x, y) ==
  IF y > 0 /\ x > MaxI32 - y
    THEN MinI32 + ((x - (MaxI32 - y)) - 1)
    ELSE IF y < 0 /\ x < MinI32 - y
      THEN MaxI32 - (((MinI32 - y) - 1) - x)
      ELSE x + y

\* ------------------------------------------------------------------------
\* f64
\* ------------------------------------------------------------------------
F64(kind, neg, cents) == [kind |-> kind, neg |-> neg, cents |-> cents]
NaN == F64("nan", FALSE, 0)
PosInf == F64("inf", FALSE, 0)
NegInf == F64("inf", TRUE, 0)
Zero == F64("fin", FALSE, 0)
NegZero == F64("fin", TRUE, 0)

\* Larger than the hundredths of any finite value the model draws.
F64Huge == 1000000000

\* The position of a non-NaN value on the extended real line; -0.0 and 0.0
\* share one position.
F64Order(a) ==
  LET mag == IF a.kind = "inf" THEN F64Huge ELSE a.cents
  IN IF a.neg THEN 0 - mag ELSE mag

\* IEEE 754 a < b: false whenever an operand is NaN.
F64Lt(a, b) ==
  /\ a.kind # "nan"
  /\ b.kind # "nan"
  /\ F64Order(a) < F64Order(b)

\* IEEE 754 a >= b: false whenever an operand is NaN.
F64Ge(a, b) ==
  /\ a.kind # "nan"
  /\ b.kind # "nan"
  /\ F64Order(a) >= F64Order(b)

\* ------------------------------------------------------------------------
\* Text: sequences of UTF-8 bytes
\* ------------------------------------------------------------------------
\* "[Default pretty_print: "
Lit_DefaultOpen ==
  <<91, 68, 101, 102, 97, 117, 108, 116, 32, 112, 114, 101, 116, 116, 121,
    95, 112, 114, 105, 110, 116, 58, 32>>
\* "[Product: "
Lit_ProductOpen ==
  <<91, 80, 114, 111, 100, 117, 99, 116, 58, 32>>
\* "]"
Lit_Close ==
  <<93>>
\* " (Price: $"
Lit_PriceOpen ==
  <<32, 40, 80, 114, 105, 99, 101, 58, 32, 36>>
\* ", Quantity: "
Lit_QuantitySep ==
  <<44, 32, 81, 117, 97, 110, 116, 105, 116, 121, 58, 32>>
\* ")"
Lit_ParenClose ==
  <<41>>
\* "Product{name="
Lit_SerOpen ==
  <<80, 114, 111, 100, 117, 99, 116, 123, 110, 97, 109, 101, 61>>
\* ",price="
Lit_SerPrice ==
  <<44, 112, 114, 105, 99, 101, 61>>
\* ",quantity="
Lit_SerQuantity ==
  <<44, 113, 117, 97, 110, 116, 105, 116, 121, 61>>
\* "}"
Lit_SerClose ==
  <<125>>
\* "..."
Lit_Ellipsis ==
  <<46, 46, 46>>
\* "MacBook Pro"
Lit_MacBookPro ==
  <<77, 97, 99, 66, 111, 111, 107, 32, 80, 114, 111>>
\* "Mechanical Keyboard"
Lit_MechanicalKeyboard ==
  <<77, 101, 99, 104, 97, 110, 105, 99, 97, 108, 32, 75, 101, 121, 98, 111,
    97, 114, 100>>
\* "This is a very long string that needs truncation"
Lit_LongString ==
  <<84, 104, 105, 115, 32, 105, 115, 32, 97, 32, 118, 101, 114, 121, 32,
    108, 111, 110, 103, 32, 115, 116, 114, 105, 110, 103, 32, 116, 104, 97,
    116, 32, 110, 101, 101, 100, 115, 32, 116, 114, 117, 110, 99, 97, 116,
    105, 111, 110>>
\* "NaN"
Lit_NaN ==
  <<78, 97, 78>>
\* "inf"
Lit_inf ==
  <<105, 110, 102>>
\* "-"
Lit_Minus ==
  <<45>>
\* "."
Lit_Point ==
  <<46>>

\* The UTF-8 encoding of one Unicode scalar value.
EncodeUtf8(cp) ==
  IF cp < 128 THEN <<cp>>
  ELSE IF cp < 2048 THEN <<192 + (cp \div 64), 128 + (cp % 64)>>
  ELSE IF cp < 65536
    THEN <<224 + (cp \div 4096), 128 + ((cp \div 64) % 64), 128 + (cp % 64)>>
    ELSE <<240 + (cp \div 262144), 128 + ((cp \div 4096) % 64),
           128 + ((cp \div 64) % 64), 128 + (cp % 64)>>

\* The str holding the given scalar values.
RECURSIVE StrOf(_)
StrOf(cps) ==
  IF cps = <<>> THEN <<>> ELSE EncodeUtf8(Head(cps)) \o StrOf(Tail(cps))

\* A byte that continues a multi-byte character (10xxxxxx).
IsContinuation(b) == b >= 128 /\ b < 192

\* str::is_char_boundary: the check behind the slice &self[..index].
is_char_boundary(s, index) ==
  \/ index = 0
  \/ index = Len(s)
  \/ index < Len(s) /\ ~IsContinuation(s[index + 1])

\* The number of bytes of the character whose first byte is b.
CharWidth(b) ==
  IF b < 128 THEN 1 ELSE IF b < 224 THEN 2 ELSE IF b < 240 THEN 3 ELSE 4

\* The scalar value of the character that starts at byte i of s.
DecodeAt(s, i) ==
  LET b == s[i]
      c(k) == s[i + k] % 64
  IN IF b < 128 THEN b
     ELSE IF b < 224 THEN (b % 32) * 64 + c(1)
     ELSE IF b < 240 THEN (b % 16) * 4096 + c(1) * 64 + c(2)
     ELSE (b % 8) * 262144 + c(1) * 4096 + c(2) * 64 + c(3)

\* str::chars: the scalar values of s from byte i on.
RECURSIVE CharsFrom(_, _)
CharsFrom(s, i) ==
  IF i > Len(s) THEN <<>>
  ELSE <<DecodeAt(s, i)>> \o CharsFrom(s, i + CharWidth(s[i]))

chars(s) == CharsFrom(s, 1)

\* char::is_whitespace (the Unicode White_Space property).
is_whitespace(cp) ==
  \/ cp \in 9..13
  \/ cp \in {32, 133, 160, 5760, 8232, 8233, 8239, 8287, 12288}
  \/ cp \in 8192..8202

\* Decimal digits of n >= 0.
RECURSIVE Digits(_)
Digits(n) ==
  IF n < 10 THEN <<48 + n>> ELSE Digits(n \div 10) \o <<48 + (n % 10)>>

\* Decimal digits of the magnitude of n <= 0 (MinI32 has no i32 negation).
RECURSIVE DigitsOfNeg(_)
DigitsOfNeg(n) ==
  LET d == (10 - (n % 10)) % 10
      rest == (n + d) \div 10
  IN IF rest = 0 THEN <<48 + d>> ELSE DigitsOfNeg(rest) \o <<48 + d>>

\* Display for i32, the "{}" of a quantity.
FmtI32(n) ==
  IF n < 0 THEN Lit_Minus \o DigitsOfNeg(n) ELSE Digits(n)

\* Display for f64 with precision 2, the "{:.2}" of a price.
FmtF64_2(a) ==
  IF a.kind = "nan" THEN Lit_NaN
  ELSE (IF a.neg THEN Lit_Minus ELSE <<>>) \o
       (IF a.kind = "inf" THEN Lit_inf
        ELSE Digits(a.cents \div 100) \o Lit_Point \o
             <<48 + ((a.cents \div 10) % 10), 48 + (a.cents % 10)>>)

\* Debug for str, the "{:?}": quoted, with quote, backslash and the named
\* control characters escaped.
RECURSIVE EscapeDebug(_)
EscapeDebug(s) ==
  IF s = <<>> THEN <<>>
  ELSE LET b == Head(s)
           e == IF b = 34 THEN <<92, 34>>
                ELSE IF b = 92 THEN <<92, 92>>
                ELSE IF b = 10 THEN <<92, 110>>
                ELSE IF b = 13 THEN <<92, 114>>
                ELSE IF b = 9 THEN <<92, 116>>
                ELSE <<b>>
       IN e \o EscapeDebug(Tail(s))

FmtDebugStr(s) == <<34>> \o EscapeDebug(s) \o <<34>>

\* ------------------------------------------------------------------------
\* Product and its trait implementations
\* ------------------------------------------------------------------------
Product(name, price, quantity) ==
  [name |-> name, price |-> price, quantity |-> quantity]

\* Result<(), ValidationError>; the message literals are kept as strings.
Ok == [tag |-> "Ok"]
Err(message) == [tag |-> "Err", message |-> message]
ValidationError(message) == message

\* impl Printable for Product: format
Product_format(self) ==
  self.name \o Lit_PriceOpen \o FmtF64_2(self.price) \o Lit_QuantitySep \o
  FmtI32(self.quantity) \o Lit_ParenClose

\* impl Printable for Product: pretty_print (the override)
Product_pretty_print(self) ==
  Lit_ProductOpen \o Product_format(self) \o Lit_Close

\* trait Printable: the default pretty_print, over the implementor's format()
Printable_pretty_print(formatted) ==
  Lit_DefaultOpen \o FmtDebugStr(formatted) \o Lit_Close

\* impl Serializable for Product: serialize
Product_serialize(self) ==
  Lit_SerOpen \o self.name \o Lit_SerPrice \o FmtF64_2(self.price) \o
  Lit_SerQuantity \o FmtI32(self.quantity) \o Lit_SerClose

\* validate with the two checks in the other order.
Product_validate_quantity_first(self) ==
  IF self.quantity < 0
    THEN Err(ValidationError("Quantity cannot be negative"))
    ELSE IF F64Lt(self.price, Zero)
      THEN Err(ValidationError("Price cannot be negative"))
      ELSE Ok

\* impl Serializable for Product: validate (the override)
Product_validate(self) ==
  IF F64Lt(self.price, Zero)
    THEN Err(ValidationError("Price cannot be negative"))
    ELSE IF self.quantity < 0
      THEN Err(ValidationError("Quantity cannot be negative"))
      ELSE Ok

\* trait Serializable: the default validate
Serializable_validate(self) == Ok

\* The methods each implementor writes itself.  "Product" is the impl blocks
\* of the source; "RequiredOnly" stands for an implementor that writes only
\* the required methods format and serialize, and whose value is the text
\* its format() returns.
Implementors == {"Product", "RequiredOnly"}

Provided(ty) ==
  IF ty = "Product"
    THEN {"format", "pretty_print", "serialize", "validate"}
    ELSE {"format", "serialize"}

format(ty, self) ==
  IF ty = "Product" THEN Product_format(self) ELSE self

\* Resolution that ignores the implementor's own pretty_print.
pretty_print_default_only(ty, self) ==
  Printable_pretty_print(format(ty, self))

\* Method resolution for x.pretty_print(): the implementor's own method when
\* it wrote one, the trait's default otherwise.
pretty_print(ty, self) ==
  IF "pretty_print" \in Provided(ty)
    THEN Product_pretty_print(self)
    ELSE Printable_pretty_print(format(ty, self))

\* Method resolution for x.validate().
validate(ty, self) ==
  IF "validate" \in Provided(ty)
    THEN Product_validate(self)
    ELSE Serializable_validate(self)

\* is_low_stock with <= for <.
is_low_stock_inclusive(self, threshold) == self.quantity <= threshold

\* impl InventoryManager for Product: is_low_stock
is_low_stock(self, threshold) == self.quantity < threshold

\* impl InventoryManager for Product: restock.  With overflow checks on
\* (the dev profile) an overflowing += panics before the store and before
\* the println!; with them off (the release profile) it wraps.
restock_panics(self, amount, checks) ==
  checks /\ AddOverflows(self.quantity, amount)

restock(self, amount) ==
  [self EXCEPT !.quantity = WrappingAdd(self.quantity, amount)]

\* ------------------------------------------------------------------------
\* StringExt for str
\* ------------------------------------------------------------------------
\* &self[..max_length] panics unless max_length is a character boundary.
truncate_panics(self, max_length) ==
  Len(self) > max_length /\ ~is_char_boundary(self, max_length)

truncate(self, max_length) ==
  IF Len(self) <= max_length
    THEN self
    ELSE SubSeq(self, 1, max_length) \o Lit_Ellipsis

\* split_whitespace().count(): the number of maximal runs of
\* non-whitespace characters.
RECURSIVE CountWords(_, _)
CountWords(cs, inWord) ==
  IF cs = <<>> THEN 0
  ELSE IF is_whitespace(Head(cs)) THEN CountWords(Tail(cs), FALSE)
  ELSE (IF inWord THEN 0 ELSE 1) + CountWords(Tail(cs), TRUE)

word_count(self) == CountWords(chars(self), FALSE)

\* ------------------------------------------------------------------------
\* The heap, Clone and filter_items
\* ------------------------------------------------------------------------
\* A copy that shares the object instead of duplicating it.
clone_shared(h, id) == [heap |-> h, id |-> id]

\* #[derive(Clone)]: a new object holding a copy of every field.
clone(h, id) == [heap |-> Append(h, h[id]), id |-> Len(h) + 1]

\* The closures handed to filter_items, as data: |p| p.is_low_stock(t),
\* |p| p.validate().is_ok(), and the two constant closures.
LowStock(t) == [fn |-> "is_low_stock", threshold |-> t]
IsValid == [fn |-> "is_valid", threshold |-> 0]
Always(b) == [fn |-> IF b THEN "true" ELSE "false", threshold |-> 0]

Apply(predicate, item) ==
  IF predicate.fn = "is_low_stock" THEN is_low_stock(item, predicate.threshold)
  ELSE IF predicate.fn = "is_valid" THEN validate("Product", item) = Ok
  ELSE predicate.fn = "true"

\* items.iter().filter(|&item| predicate(item)).cloned().collect(), from
\* position i on: h is the heap so far and acc the Vec collected so far.
RECURSIVE FilterFrom(_, _, _, _, _)
FilterFrom(h, items, predicate, i, acc) ==
  IF i > Len(items) THEN [heap |-> h, vec |-> acc]
  ELSE IF Apply(predicate, h[items[i]])
    THEN LET c == clone(h, items[i])
         IN FilterFrom(c.heap, items, predicate, i + 1, Append(acc, c.id))
    ELSE FilterFrom(h, items, predicate, i + 1, acc)

\* filter_items that starts at the second element.
filter_items_skip_first(h, items, predicate) ==
  FilterFrom(h, items, predicate, 2, <<>>)

filter_items(h, items, predicate) == FilterFrom(h, items, predicate, 1, <<>>)

\* ------------------------------------------------------------------------
\* State
\* ------------------------------------------------------------------------
VARIABLES
  heap,                \* object id -> Product
  products,            \* Vec<Product>, as object ids
  low_stock_products,  \* Vec<Product> returned by filter_items, as object ids
  p,                   \* the loop variable of main, 0 outside the loop body
  pc,                  \* the statement main is about to run
  out,                 \* the println! events so far
  overflow_checks,     \* the build's overflow-checks setting
  panicked,            \* the thread has panicked
  text,                \* the str a StringExt method is called on
  call                 \* the last library call: operation, arguments, result

vars ==
  <<heap, products, low_stock_products, p, pc, out, overflow_checks, panicked,
    text, call>>

\* A println! event: the source line of the statement and its rendered
\* arguments.
Line(stmt, args) == [stmt |-> stmt, args |-> args]

NoCall == [op |-> "none"]

\* ------------------------------------------------------------------------
\* main, over every pair of products the two struct literals can hold
\* ------------------------------------------------------------------------
laptop == 1
keyboard == 2
TruncateLength == 10
LowStockThreshold == 3
RestockAmount == 10

\* 1999.99 and 129.99, as printed by {:.2}
Price_1999_99 == F64("fin", FALSE, 199999)
Price_129_99 == F64("fin", FALSE, 12999)

Prices ==
  {NaN, NegInf, F64("fin", TRUE, 1), NegZero, Zero, Price_129_99,
   Price_1999_99, PosInf}

Quantities == {MinI32, -1, 0, 2, 3, 5, MaxI32}

Init ==
  /\ \E lp \in Prices, kp \in Prices, lq \in Quantities, kq \in Quantities :
       heap = <<Product(Lit_MacBookPro, lp, lq),
                Product(Lit_MechanicalKeyboard, kp, kq)>>
  /\ products = <<>>
  /\ low_stock_products = <<>>
  /\ p = 0
  /\ pc = 158
  /\ out = <<>>
  /\ overflow_checks \in BOOLEAN
  /\ panicked = FALSE
  /\ text = Lit_LongString
  /\ call = NoCall

\* println!("Pretty Print: {}", laptop.pretty_print());
PrintPretty ==
  /\ pc = 158
  /\ out' = Append(out, Line(158, <<pretty_print("Product", heap[laptop])>>))
  /\ pc' = 159
  /\ UNCHANGED <<heap, products, low_stock_products, p, overflow_checks,
                 panicked, text, call>>

\* println!("Serialized: {}", laptop.serialize());
PrintSerialized ==
  /\ pc = 159
  /\ out' = Append(out, Line(159, <<Product_serialize(heap[laptop])>>))
  /\ pc' = 162
  /\ UNCHANGED <<heap, products, low_stock_products, p, overflow_checks,
                 panicked, text, call>>

\* A failed validation that returns from main.
PrintValidation_exits_on_error ==
  /\ pc = 162
  /\ LET r == validate("Product", heap[laptop])
     IN /\ out' = Append(out, IF r = Ok THEN Line(163, <<>>)
                                        ELSE Line(164, <<r.message>>))
        /\ pc' = IF r = Ok THEN 170 ELSE 181
  /\ UNCHANGED <<heap, products, low_stock_products, p, overflow_checks,
                 panicked, text, call>>

\* match laptop.validate() { Ok(_) => println!(..), Err(e) => println!(..) }
PrintValidation ==
  /\ pc = 162
  /\ LET r == validate("Product", heap[laptop])
     IN out' = Append(out, IF r = Ok THEN Line(163, <<>>)
                                     ELSE Line(164, <<r.message>>))
  /\ pc' = 170
  /\ UNCHANGED <<heap, products, low_stock_products, p, overflow_checks,
                 panicked, text, call>>

\* println!("Truncated: {}", long_string.truncate(10));
PrintTruncated ==
  /\ pc = 170
  /\ IF truncate_panics(text, TruncateLength)
       THEN panicked' = TRUE /\ pc' = 0 /\ out' = out
       ELSE /\ out' = Append(out, Line(170, <<truncate(text, TruncateLength)>>))
            /\ pc' = 171
            /\ panicked' = panicked
  /\ UNCHANGED <<heap, products, low_stock_products, p, overflow_checks,
                 text, call>>

\* println!("Word count: {}", long_string.word_count());
PrintWordCount ==
  /\ pc = 171
  /\ out' = Append(out, Line(171, <<Digits(word_count(text))>>))
  /\ pc' = 174
  /\ UNCHANGED <<heap, products, low_stock_products, p, overflow_checks,
                 panicked, text, call>>

\* let products = vec![laptop.clone(), keyboard.clone()];
MakeProducts ==
  /\ pc = 174
  /\ LET c1 == clone(heap, laptop)
         c2 == clone(c1.heap, keyboard)
     IN /\ heap' = c2.heap
        /\ products' = <<c1.id, c2.id>>
  /\ pc' = 175
  /\ UNCHANGED <<low_stock_products, p, out, overflow_checks, panicked, text,
                 call>>

\* let low_stock_products = filter_items(&products, |p| p.is_low_stock(3));
FilterLowStock ==
  /\ pc = 175
  /\ LET r == filter_items(heap, products, LowStock(LowStockThreshold))
     IN /\ heap' = r.heap
        /\ low_stock_products' = r.vec
  /\ pc' = 176
  /\ UNCHANGED <<products, p, out, overflow_checks, panicked, text, call>>

\* println!("Low Stock Products:");
PrintHeader ==
  /\ pc = 176
  /\ out' = Append(out, Line(176, <<>>))
  /\ pc' = 177
  /\ UNCHANGED <<heap, products, low_stock_products, p, overflow_checks,
                 panicked, text, call>>

\* for mut p in low_stock_products: the next element is moved out of the
\* Vec, or the loop (and main) ends.
LoopNext ==
  /\ pc = 177
  /\ IF low_stock_products = <<>>
       THEN /\ pc' = 181
            /\ UNCHANGED <<p, low_stock_products>>
       ELSE /\ p' = Head(low_stock_products)
            /\ low_stock_products' = Tail(low_stock_products)
            /\ pc' = 178
  /\ UNCHANGED <<heap, products, out, overflow_checks, panicked, text, call>>

\* println!("{} - Quantity: {}", p.name, p.quantity);
PrintItem ==
  /\ pc = 178
  /\ out' = Append(out, Line(178, <<heap[p].name, FmtI32(heap[p].quantity)>>))
  /\ pc' = 179
  /\ UNCHANGED <<heap, products, low_stock_products, p, overflow_checks,
                 panicked, text, call>>

\* p.restock(10);  (restock's own println! is line 105)
RestockItem ==
  /\ pc = 179
  /\ IF restock_panics(heap[p], RestockAmount, overflow_checks)
       THEN /\ panicked' = TRUE
            /\ pc' = 0
            /\ UNCHANGED <<heap, out, p>>
       ELSE /\ heap' = [heap EXCEPT ![p] = restock(heap[p], RestockAmount)]
            /\ out' = Append(out, Line(105, <<heap[p].name,
                                              FmtI32(RestockAmount)>>))
            /\ p' = 0
            /\ pc' = 177
            /\ panicked' = panicked
  /\ UNCHANGED <<products, low_stock_products, overflow_checks, text, call>>

Next ==
  \/ PrintPretty
  \/ PrintSerialized
  \/ PrintValidation
  \/ PrintTruncated
  \/ PrintWordCount
  \/ MakeProducts
  \/ FilterLowStock
  \/ PrintHeader
  \/ LoopNext
  \/ PrintItem
  \/ RestockItem

Spec == Init /\ [][Next]_vars

\* ------------------------------------------------------------------------
\* The trait methods called on one Product, in any order
\* ------------------------------------------------------------------------
MaxRestocks == 2

Names == {Lit_MacBookPro}
Thresholds == {MinI32, 0, 3, MaxI32}
Amounts == {MinI32, -1, 0, 10, MaxI32}

\* What format() of a RequiredOnly implementor returns: "", "a", a quote
\* and a backslash, a line feed.
FormatTexts == {<<>>, <<97>>, <<34, 92>>, <<10>>}

\* The receiver of a call on an implementor.
Receivers(ty) == IF ty = "Product" THEN {heap[1]} ELSE FormatTexts

InitProduct ==
  /\ \E n \in Names, pr \in Prices, q \in Quantities :
       heap = <<Product(n, pr, q)>>
  /\ products = <<>>
  /\ low_stock_products = <<>>
  /\ p = 0
  /\ pc = 0
  /\ out = <<>>
  /\ overflow_checks \in BOOLEAN
  /\ panicked = FALSE
  /\ text = <<>>
  /\ call = NoCall

\* A call of a method that takes &self and returns a value.
Returns(op, ty, self, arg, result) ==
  /\ ~panicked
  /\ call' = [op |-> op, ty |-> ty, self |-> self, arg |-> arg,
              result |-> result]
  /\ UNCHANGED <<heap, products, low_stock_products, p, pc, out,
                 overflow_checks, panicked, text>>

CallFormat ==
  \E ty \in Implementors : \E self \in Receivers(ty) :
    Returns("format", ty, self, 0, format(ty, self))

CallPrettyPrint ==
  \E ty \in Implementors : \E self \in Receivers(ty) :
    Returns("pretty_print", ty, self, 0, pretty_print(ty, self))

CallSerialize ==
  Returns("serialize", "Product", heap[1], 0, Product_serialize(heap[1]))

CallValidate ==
  \E ty \in Implementors : \E self \in Receivers(ty) :
    Returns("validate", ty, self, 0, validate(ty, self))

CallIsLowStock ==
  \E threshold \in Thresholds :
    Returns("is_low_stock", "Product", heap[1], threshold,
            is_low_stock(heap[1], threshold))

\* id.restock(amount) on a heap object, whole: the += and the println!, or
\* the panic.
Restock(id, amount) ==
  /\ ~panicked
  /\ Len(out) < MaxRestocks
  /\ call' = [op |-> "restock", ty |-> "Product", self |-> heap[id],
              arg |-> amount, result |-> id]
  /\ IF restock_panics(heap[id], amount, overflow_checks)
       THEN /\ panicked' = TRUE
            /\ UNCHANGED <<heap, out>>
       ELSE /\ heap' = [heap EXCEPT ![id] = restock(heap[id], amount)]
            /\ out' = Append(out, Line(105, <<heap[id].name, FmtI32(amount)>>))
            /\ panicked' = panicked
  /\ UNCHANGED <<products, low_stock_products, p, pc, overflow_checks, text>>

CallRestock == \E amount \in Amounts : Restock(1, amount)

NextProduct ==
  \/ CallFormat
  \/ CallPrettyPrint
  \/ CallSerialize
  \/ CallValidate
  \/ CallIsLowStock
  \/ CallRestock

SpecProduct == InitProduct /\ [][NextProduct]_vars

\* ------------------------------------------------------------------------
\* Properties of the Product methods (SpecProduct)
\* ------------------------------------------------------------------------
ValidateCalled == call.op = "validate" /\ call.ty = "Product"

\* C1: Product::validate() returns Ok if and only if price >= 0 and
\* quantity >= 0, and it leaves the product it checks as it was.
ValidateOkIffNonNegative ==
  ValidateCalled =>
    /\ call.result = Ok <=>
         (F64Ge(call.self.price, Zero) /\ call.self.quantity >= 0)
    /\ heap[1] = call.self

\* C2: Product::validate() reports the first failing condition only, price
\* before quantity: a price below zero gives "Price cannot be negative"
\* whatever the quantity, and a price of at least zero with a quantity below
\* zero gives "Quantity cannot be negative".
ValidateReportsFirstFailure ==
  ValidateCalled =>
    /\ F64Lt(call.self.price, Zero) =>
         call.result = Err("Price cannot be negative")
    /\ (F64Ge(call.self.price, Zero) /\ call.self.quantity < 0) =>
         call.result = Err("Quantity cannot be negative")

\* validate() has run on a product whose price and quantity are both below
\* zero, and has reported the price.
ValidateBothNegativeSeen ==
  /\ ValidateCalled
  /\ F64Lt(call.self.price, Zero)
  /\ call.self.quantity < 0
  /\ call.result = Err("Price cannot be negative")

\* A step that is a call of restock.
RestockStep ==
  /\ call'.op = "restock"
  /\ out' # out \/ panicked' # panicked

\* C6: restock(a) followed by restock(b) ends with the quantity a single
\* restock(a + b) gives, for every quantity and all i32 amounts a and b, and
\* changes neither name nor price.  The sum a + b is the build's own i32
\* addition.
RestockComposesAdditively ==
  [][(call.op = "restock" /\ ~panicked /\ RestockStep) =>
       LET a == call.arg
           b == call'.arg
       IN /\ ~panicked'
          /\ ~(overflow_checks /\ AddOverflows(a, b))
          /\ ~restock_panics(call.self, WrappingAdd(a, b), overflow_checks)
          /\ heap'[1] = restock(call.self, WrappingAdd(a, b))
          /\ heap'[1].name = call.self.name
          /\ heap'[1].price = call.self.price]_vars

\* C8: is_low_stock(threshold) is true exactly when quantity < threshold,
\* so it is false when quantity = threshold, and it leaves the product as
\* it was.
IsLowStockStrict ==
  call.op = "is_low_stock" =>
    /\ call.result <=> call.self.quantity < call.arg
    /\ call.self.quantity = call.arg => call.result = FALSE
    /\ heap[1] = call.self

\* is_low_stock has run with the threshold equal to the quantity.
IsLowStockAtBoundarySeen ==
  /\ call.op = "is_low_stock"
  /\ call.self.quantity = call.arg
  /\ call.result = FALSE

\* C9: method resolution picks the override when there is one and the
\* default otherwise.  On a Product, pretty_print() is "[Product: " +
\* format() + "]" and never the default wrapping, and validate() is the
\* price/quantity check; on an implementor of the required methods only,
\* pretty_print() is the default wrapping of its format() output and
\* validate() succeeds.
ResolutionPicksOverride ==
  /\ (call.op = "pretty_print" /\ call.ty = "Product") =>
       /\ call.result =
            Lit_ProductOpen \o Product_format(call.self) \o Lit_Close
       /\ call.result # Printable_pretty_print(Product_format(call.self))
  /\ ValidateCalled =>
       /\ call.result = Product_validate(call.self)
       /\ (F64Lt(call.self.price, Zero) \/ call.self.quantity < 0) =>
            call.result # Ok
  /\ (call.op = "pretty_print" /\ call.ty = "RequiredOnly") =>
       call.result = Lit_DefaultOpen \o FmtDebugStr(call.self) \o Lit_Close
  /\ (call.op = "validate" /\ call.ty = "RequiredOnly") =>
       call.result = Ok

\* pretty_print() has run on a Product.
ProductPrettyPrintSeen ==
  /\ call.op = "pretty_print"
  /\ call.ty = "Product"
  /\ SubSeq(call.result, 1, Len(Lit_ProductOpen)) = Lit_ProductOpen

\* ------------------------------------------------------------------------
\* filter_items over any sequence and predicate, then restock of the result
\* ------------------------------------------------------------------------
MaxItems == 3

\* laptop and keyboard as main builds them, and products that fail
\* validation or sit at the end of the i32 range.
ItemValues ==
  {Product(Lit_MacBookPro, Price_1999_99, 5),
   Product(Lit_MechanicalKeyboard, Price_129_99, 2),
   Product(Lit_MacBookPro, NaN, -1),
   Product(Lit_MechanicalKeyboard, F64("fin", TRUE, 1), 0),
   Product(Lit_MacBookPro, Zero, MaxI32)}

Predicates ==
  {LowStock(0), LowStock(LowStockThreshold), LowStock(MaxI32), IsValid,
   Always(TRUE), Always(FALSE)}

FilterAmounts == {-1, RestockAmount, MaxI32}

\* The Products a Vec of object ids holds, in order.
Values(h, ids) == [i \in 1..Len(ids) |-> h[ids[i]]]

Ids(ids) == {ids[i] : i \in 1..Len(ids)}

InitFilter ==
  /\ \E n \in 0..MaxItems : \E items \in [1..n -> ItemValues] :
       /\ heap = items
       /\ products = [i \in 1..n |-> i]
  /\ low_stock_products = <<>>
  /\ p = 0
  /\ pc = 0
  /\ out = <<>>
  /\ overflow_checks \in BOOLEAN
  /\ panicked = FALSE
  /\ text = <<>>
  /\ call = NoCall

\* low_stock_products = filter_items(&products, predicate), once.
CallFilterItems ==
  /\ call = NoCall
  /\ \E predicate \in Predicates :
       LET r == filter_items(heap, products, predicate)
       IN /\ heap' = r.heap
          /\ low_stock_products' = r.vec
          /\ call' = [op |-> "filter_items", ty |-> "Product",
                      self |-> Values(heap, products), arg |-> predicate,
                      result |-> r.vec]
  /\ UNCHANGED <<products, p, pc, out, overflow_checks, panicked, text>>

\* restock of an element of the filtered Vec.
CallRestockFiltered ==
  /\ call # NoCall
  /\ \E i \in 1..Len(low_stock_products) : \E amount \in FilterAmounts :
       Restock(low_stock_products[i], amount)

NextFilter ==
  \/ CallFilterItems
  \/ CallRestockFiltered

SpecFilter == InitFilter /\ [][NextFilter]_vars

\* C4: filter_items returns a new sequence holding copies of exactly the
\* input elements the predicate holds for, none missing, none extra,
\* multiplicities kept, in the input's order, and leaves the input
\* sequence element for element as it was; [laptop(5), keyboard(2)] with
\* is_low_stock(3) gives [keyboard].
FilterItemsExact ==
  call.op = "filter_items" =>
    LET input == call.self
        res == Values(heap, low_stock_products)
        kept == {i \in 1..Len(input) : Apply(call.arg, input[i])}
    IN /\ Len(res) = Cardinality(kept)
       /\ \E f \in [1..Len(res) -> kept] :
            /\ \A j, k \in 1..Len(res) : j < k => f[j] < f[k]
            /\ \A k \in 1..Len(res) : res[k] = input[f[k]]
       /\ Ids(low_stock_products) \cap Ids(products) = {}
       /\ Cardinality(Ids(low_stock_products)) = Len(low_stock_products)
       /\ Values(heap, products) = input
       /\ (/\ Len(input) = 2
           /\ input[1].quantity = 5
           /\ input[2].quantity = 2
           /\ call.arg = LowStock(3)) => res = <<input[2]>>

\* filter_items has run on [laptop(5), keyboard(2)] with is_low_stock(3).
FilterExampleSeen ==
  /\ call.op = "filter_items"
  /\ call.self = <<Product(Lit_MacBookPro, Price_1999_99, 5),
                   Product(Lit_MechanicalKeyboard, Price_129_99, 2)>>
  /\ call.arg = LowStock(3)
  /\ Len(low_stock_products) = 1

\* C5: a restock of an element of the filtered result changes that copy
\* only; every element of the original sequence keeps its name, price and
\* quantity through every such restock.
RestockedCopyIsLocal ==
  [][RestockStep =>
       /\ call'.result \in Ids(low_stock_products)
       /\ products' = products
       /\ Values(heap', products') = Values(heap, products)
       /\ \A id \in DOMAIN heap : id # call'.result => heap'[id] = heap[id]]_vars

\* Two restocks of filtered copies have run and changed the copy.
FilteredCopyRestockedSeen ==
  /\ call.op = "restock"
  /\ Len(out) = MaxRestocks
  /\ heap[call.result] # call.self
  /\ products # <<>>

\* ------------------------------------------------------------------------
\* The StringExt methods on any str
\* ------------------------------------------------------------------------
MaxTextChars == 3

\* 'a', ' ', U+00E9 (2 bytes), U+20AC (3 bytes), U+1F600 (4 bytes)
Alphabet == {97, 32, 233, 8364, 128512}

Texts ==
  UNION {{StrOf(cps) : cps \in [1..n -> Alphabet]} : n \in 0..MaxTextChars}

\* Every max_length up to one past the longest text.
TruncateLengths == 0..(4 * MaxTextChars + 1)

InitStr ==
  /\ heap = <<>>
  /\ products = <<>>
  /\ low_stock_products = <<>>
  /\ p = 0
  /\ pc = 0
  /\ out = <<>>
  /\ overflow_checks \in BOOLEAN
  /\ panicked = FALSE
  /\ text \in Texts
  /\ call = NoCall

\* text.truncate(max_length)
CallTruncate ==
  /\ ~panicked
  /\ \E max_length \in TruncateLengths :
       IF truncate_panics(text, max_length)
         THEN /\ panicked' = TRUE
              /\ call' = [op |-> "truncate", ty |-> "str", self |-> text,
                          arg |-> max_length, result |-> <<>>]
         ELSE /\ panicked' = panicked
              /\ call' = [op |-> "truncate", ty |-> "str", self |-> text,
                          arg |-> max_length,
                          result |-> truncate(text, max_length)]
  /\ UNCHANGED <<heap, products, low_stock_products, p, pc, out,
                 overflow_checks, text>>

\* text.word_count()
CallWordCount ==
  Returns("word_count", "str", text, 0, word_count(text))

NextStr ==
  \/ CallTruncate
  \/ CallWordCount

SpecStr == InitStr /\ [][NextStr]_vars

\* C3: every capability other than validate is a total function: whatever
\* the input, the call completes normally and never panics.
CapabilitiesAreTotal ==
  call.op \in {"truncate", "word_count"} => ~panicked

\* C7: truncate(n) returns the text unchanged when its length is at most n,
\* and otherwise the first n units of the text followed by "...", n + 3
\* units in all, for texts of any characters.
TruncateKeepsPrefix ==
  call.op = "truncate" =>
    LET s == call.self
        n == call.arg
        r == call.result
    IN /\ ~panicked
       /\ Len(s) <= n => r = s
       /\ Len(s) > n =>
            /\ Len(r) = n + 3
            /\ SubSeq(r, 1, n) = SubSeq(s, 1, n)
            /\ SubSeq(r, n + 1, n + 3) = Lit_Ellipsis

\* ------------------------------------------------------------------------
\* Properties of main (Spec)
\* ------------------------------------------------------------------------
\* The products of the two struct literals that is_low_stock(3) holds for,
\* in the order of the Vec.
LowStockOriginals ==
  SelectSeq(<<heap[laptop], heap[keyboard]>>,
            LAMBDA x : x.quantity < LowStockThreshold)

\* The lines of the loop for the given elements: each element's own line,
\* with the quantity it had before restock, then its restock log line.
RECURSIVE LoopLines(_)
LoopLines(items) ==
  IF items = <<>> THEN <<>>
  ELSE <<Line(178, <<Head(items).name, FmtI32(Head(items).quantity)>>),
         Line(105, <<Head(items).name, FmtI32(RestockAmount)>>)>>
       \o LoopLines(Tail(items))

\* The statements that print the lines of a finished run, in order.
ExpectedStmts ==
  <<158, 159, IF Product_validate(heap[laptop]) = Ok THEN 163 ELSE 164,
    170, 171, 176>>

\* C10: the output events come in one fixed order: pretty-print,
\* serialize, validation result, truncation, word count, the header, and
\* then for each low-stock element in the filtered order its own line,
\* showing the quantity before restock, followed at once by its restock
\* log line; a failed validation is printed and stops nothing, so a run
\* that has reached the end of main has printed every one of these lines.
OutputOrder ==
  LET tail == LoopLines(LowStockOriginals)
      full == Len(ExpectedStmts) + Len(tail)
  IN /\ ~panicked
     /\ Len(out) <= full
     /\ \A i \in 1..Len(out) :
          IF i <= Len(ExpectedStmts)
            THEN out[i].stmt = ExpectedStmts[i]
            ELSE out[i] = tail[i - Len(ExpectedStmts)]
     /\ pc = 181 => Len(out) = full

\* A run has ended after a failed validation and two restocked elements.
FailedValidationRunEnded ==
  /\ pc = 181
  /\ Len(out) = 10
  /\ out[3].stmt = 164
  /\ out[10].stmt = 105

====
